---- MODULE Spec2Model ----
(***************************************************************************)
(* Duplicate-vertex detection and removal (streamlit_app.py).              *)
(*                                                                         *)
(* Two specifications share the module:                                    *)
(*   Spec      the geometry functions get_coordinates_with_index,          *)
(*             find_duplicate_vertices and remove_duplicates_from_geometry *)
(*             applied to one geometry drawn from a bounded domain;        *)
(*   SpecMain  the reruns of main() over st.session_state.                 *)
(*                                                                         *)
(* A geometry is a record [geom_type, coords, interiors, geoms]:           *)
(*   coords     the stored coordinate tuples of a Point, LineString or     *)
(*              LinearRing, or of the exterior ring of a Polygon;          *)
(*   interiors  the stored coordinate tuples of each interior ring;        *)
(*   geoms      the parts of a Multi* geometry.                            *)
(* A coordinate is the tuple shapely hands out: <<x, y>> or <<x, y, z>>.   *)
(* A Python call is modelled by a record [exc, val]: exc is "none" and val *)
(* the returned value, or exc names the exception the call ends in.        *)
(***************************************************************************)
EXTENDS Integers, Sequences, FiniteSets, TLC

VARIABLES
    geometry,            \* the geometry handed to the functions
    pc,                  \* position in the pipeline of Spec, or in main()
    coords_with_index,   \* get_coordinates_with_index(geometry)
    duplicates,          \* find_duplicate_vertices(geometry)
    cleaned_geometry,    \* remove_duplicates_from_geometry(geometry)
    cleaned_duplicates,  \* find_duplicate_vertices(cleaned_geometry)
    session_state,       \* st.session_state: its keys and their values
    uploaded_file,       \* value of st.file_uploader in the current run
    button,              \* value of st.button in the current run
    gdf,                 \* features being processed by the current run
    row,                 \* loop position of the detection / cleaning loop
    results,             \* results of the detection loop
    cleaned_results,     \* cleaned_results of the cleaning loop
    skipped,             \* features reported by st.warning (line 194)
    error,               \* TRUE when st.error was shown (line 337)
    previous_file_name   \* history: uploaded_file_name when the run started

geomVars == <<geometry, coords_with_index, duplicates, cleaned_geometry,
              cleaned_duplicates>>
mainVars == <<session_state, uploaded_file, button, gdf, row, results,
              cleaned_results, skipped, error, previous_file_name>>
vars == <<geometry, pc, coords_with_index, duplicates, cleaned_geometry,
          cleaned_duplicates, session_state, uploaded_file, button, gdf, row,
          results, cleaned_results, skipped, error, previous_file_name>>

(***************************************************************************)
(* Bounds of the input domain.                                             *)
(***************************************************************************)
MaxX == 1
MaxZ == 1
MaxLen == 4
MaxRing == 5
MaxParts == 2
MaxFeatures == 2

(***************************************************************************)
(* Python values.                                                          *)
(***************************************************************************)
Ok(v) == [exc |-> "none", val |-> v]

Raise(e, v) == [exc |-> e, val |-> v]

Geom(t, cs, ints, gs) ==
    [geom_type |-> t, coords |-> cs, interiors |-> ints, geoms |-> gs]

NoGeometry == Geom("None", <<>>, <<>>, <<>>)

LineStringOf(cs) == Geom("LineString", cs, <<>>, <<>>)

(***************************************************************************)
(* get_coordinates_with_index                                              *)
(***************************************************************************)
\* tuple(coord)[:2]
Slice2(coord) == SubSeq(coord, 1, 2)

\* a closure test that is never true: the final coordinate is always kept
DropClosureKeep(unique_coords) == unique_coords

\* if unique_coords[0] == unique_coords[-1]: unique_coords.pop()
DropClosure(unique_coords) ==
    IF unique_coords[1] = unique_coords[Len(unique_coords)]
    THEN SubSeq(unique_coords, 1, Len(unique_coords) - 1)
    ELSE unique_coords

\* for coord in ...: coords.append((tuple(coord)[:2], idx)); idx += 1
Indexed(cs, idx) == [i \in 1..Len(cs) |-> <<Slice2(cs[i]), idx + i - 1>>]

\* the loop over geometry.interiors; coords and idx are the locals of the call
RECURSIVE InteriorCoords(_, _, _, _)
InteriorCoords(interiors, k, coords, idx) ==
    IF k > Len(interiors) THEN Ok(coords)
    ELSE IF interiors[k] = <<>> THEN Raise("IndexError", <<>>)
    ELSE LET interior_coords == DropClosure(interiors[k])
         IN  InteriorCoords(interiors, k + 1,
                            coords \o Indexed(interior_coords, idx),
                            idx + Len(interior_coords))

RECURSIVE get_coordinates_with_index(_)
RECURSIVE PartCoords(_, _, _)
\* the loop over geometry.geoms: part_coords is extended as returned
PartCoords(geoms, k, coords) ==
    IF k > Len(geoms) THEN Ok(coords)
    ELSE LET part_coords == get_coordinates_with_index(geoms[k])
         IN  IF part_coords.exc # "none" THEN part_coords
             ELSE PartCoords(geoms, k + 1, coords \o part_coords.val)

get_coordinates_with_index(g) ==
    IF g.geom_type = "None" THEN Raise("AttributeError", <<>>)
    ELSE IF g.geom_type = "Point" THEN
        IF g.coords = <<>> THEN Raise("IndexError", <<>>)
        ELSE Ok(<< <<Slice2(g.coords[1]), 0>> >>)
    ELSE IF g.geom_type \in {"LineString", "LinearRing"} THEN
        IF g.coords = <<>> THEN Raise("IndexError", <<>>)
        ELSE Ok(Indexed(DropClosure(g.coords), 0))
    ELSE IF g.geom_type = "Polygon" THEN
        IF g.coords = <<>> THEN Raise("IndexError", <<>>)
        ELSE LET exterior_coords == DropClosure(g.coords)
             IN  InteriorCoords(g.interiors, 1, Indexed(exterior_coords, 0),
                                Len(exterior_coords))
    ELSE IF g.geom_type \in {"MultiPoint", "MultiLineString", "MultiPolygon"}
    THEN PartCoords(g.geoms, 1, <<>>)
    ELSE Ok(<<>>)

(***************************************************************************)
(* find_duplicate_vertices                                                 *)
(***************************************************************************)
\* a loop that forgets to record the coordinates it has seen
RECURSIVE DupLoopForgetful(_, _, _, _)
DupLoopForgetful(cwi, k, seen, dups) ==
    IF k > Len(cwi) THEN dups
    ELSE IF cwi[k][1] \in seen
         THEN DupLoopForgetful(cwi, k + 1, seen, dups \cup {cwi[k][1]})
         ELSE DupLoopForgetful(cwi, k + 1, {cwi[k][1]}, dups)

\* for coord, _ in coords_with_index: ... (lines 60-67)
RECURSIVE DupLoop(_, _, _, _)
DupLoop(cwi, k, seen, dups) ==
    IF k > Len(cwi) THEN dups
    ELSE IF cwi[k][1] \in seen
         THEN DupLoop(cwi, k + 1, seen, dups \cup {cwi[k][1]})
         ELSE DupLoop(cwi, k + 1, seen \cup {cwi[k][1]}, dups)

find_duplicate_vertices(g) ==
    LET cwi == get_coordinates_with_index(g)
    IN  IF cwi.exc # "none" THEN Raise(cwi.exc, {})
        ELSE IF cwi.val = <<>> THEN Ok({})
        ELSE Ok(DupLoop(cwi.val, 1, {}, {}))

(***************************************************************************)
(* remove_duplicates_from_geometry                                         *)
(***************************************************************************)
\* a filter that drops every coordinate already kept, adjacent or not
RECURSIVE RepeatedPointFilterAll(_, _, _)
RepeatedPointFilterAll(cs, k, out) ==
    IF k > Len(cs) THEN out
    ELSE IF \E j \in 1..Len(out) : Slice2(out[j]) = Slice2(cs[k])
         THEN RepeatedPointFilterAll(cs, k + 1, out)
         ELSE RepeatedPointFilterAll(cs, k + 1, Append(out, cs[k]))

\* shapely.remove_repeated_points with its default tolerance 0.0: from the
\* start of the sequence, a coordinate at distance 0 (in x, y) of the last
\* one kept is skipped
RECURSIVE RepeatedPointFilter(_, _, _)
RepeatedPointFilter(cs, k, out) ==
    IF k > Len(cs) THEN out
    ELSE IF out # <<>> /\ Slice2(out[Len(out)]) = Slice2(cs[k])
         THEN RepeatedPointFilter(cs, k + 1, out)
         ELSE RepeatedPointFilter(cs, k + 1, Append(out, cs[k]))

\* remove_repeated_points on the coordinates of a LineString: a result
\* shorter than the 2 coordinates a LineString needs is padded with its
\* last coordinate
remove_repeated_points(cs) ==
    LET out == RepeatedPointFilter(cs, 1, <<>>)
    IN  IF Len(out) = 1 THEN out \o out ELSE out

\* Polygon(exterior_cleaned, interiors_cleaned): a ring of 1 to 3
\* coordinates is refused
PolygonOf(exterior, interiors) ==
    IF \E r \in {exterior} \cup {interiors[i] : i \in 1..Len(interiors)} :
           Len(r) \in 1..3
    THEN Raise("ValueError", NoGeometry)
    ELSE Ok(Geom("Polygon", exterior, interiors, <<>>))

\* evaluation of the name MultiPolygon in the module's globals: line 6
\* imports Point, Polygon, LineString and MultiLineString only
LookupMultiPolygon == "NameError"

RECURSIVE remove_duplicates_from_geometry(_)
RECURSIVE CleanedPolygons(_, _, _)
\* [remove_duplicates_from_geometry(poly) for poly in geometry.geoms]
CleanedPolygons(geoms, k, out) ==
    IF k > Len(geoms) THEN Ok(out)
    ELSE LET poly == remove_duplicates_from_geometry(geoms[k])
         IN  IF poly.exc # "none" THEN Raise(poly.exc, <<>>)
             ELSE CleanedPolygons(geoms, k + 1, Append(out, poly.val))

remove_duplicates_from_geometry(g) ==
    IF g.geom_type = "None" THEN Raise("AttributeError", NoGeometry)
    ELSE IF g.geom_type = "Polygon" THEN
        PolygonOf(remove_repeated_points(g.coords),
                  [i \in 1..Len(g.interiors) |->
                       remove_repeated_points(g.interiors[i])])
    ELSE IF g.geom_type = "LineString" THEN
        Ok(LineStringOf(remove_repeated_points(g.coords)))
    ELSE IF g.geom_type = "MultiLineString" THEN
        Ok(Geom("MultiLineString", <<>>, <<>>,
                [i \in 1..Len(g.geoms) |->
                     LineStringOf(remove_repeated_points(g.geoms[i].coords))]))
    ELSE IF g.geom_type = "MultiPolygon" THEN
        IF LookupMultiPolygon # "none"
        THEN Raise(LookupMultiPolygon, NoGeometry)
        ELSE LET polys == CleanedPolygons(g.geoms, 1, <<>>)
             IN  IF polys.exc # "none" THEN Raise(polys.exc, NoGeometry)
                 ELSE Ok(Geom("MultiPolygon", <<>>, <<>>, polys.val))
    ELSE Ok(g)

(***************************************************************************)
(* The input domain of Spec.                                               *)
(***************************************************************************)
XY == {<<x, y>> : x \in 0..MaxX, y \in {0, 1}}

XY0 == {<<x, 0>> : x \in 0..MaxX}

XYZ == {<<p[1], p[2], z>> : p \in XY, z \in 0..MaxZ}

Seqs(S, lo, hi) == UNION {[1..n -> S] : n \in lo..hi}

\* closed rings of lo..hi stored coordinates
Rings(S, lo, hi) == {Append(s, s[1]) : s \in Seqs(S, lo - 1, hi - 1)}

Triangle == << <<0, 0>>, <<1, 0>>, <<0, 1>>, <<0, 0>> >>

PolygonNoHoles(cs) == Geom("Polygon", cs, <<>>, <<>>)

Points ==
    {Geom("Point", cs, <<>>, <<>>) : cs \in {<<>>} \cup Seqs(XY \cup XYZ, 1, 1)}

LineStrings ==
    {LineStringOf(cs) :
        cs \in {<<>>} \cup Seqs(XY, 2, MaxLen) \cup Seqs(XYZ, 2, 3)}

LinearRings ==
    {Geom("LinearRing", cs, <<>>, <<>>) : cs \in {<<>>} \cup Rings(XY, 4, 4)}

Polygons ==
    {PolygonNoHoles(cs) :
        cs \in {<<>>} \cup Rings(XY, 4, MaxRing) \cup Rings(XYZ, 4, 4)}
    \cup {Geom("Polygon", cs, <<r>>, <<>>) :
            cs \in Rings(XY, 4, 4), r \in Rings(XY0, 4, 4)}
    \cup {Geom("Polygon", Triangle, <<r1, r2>>, <<>>) :
            r1 \in Rings(XY0, 4, 4), r2 \in Rings(XY0, 4, 4)}

MultiPoints ==
    {Geom("MultiPoint", <<>>, <<>>, gs) :
        gs \in Seqs({Geom("Point", <<c>>, <<>>, <<>>) : c \in XY0}, 0, MaxParts)}

MultiLineStrings ==
    {Geom("MultiLineString", <<>>, <<>>, gs) :
        gs \in Seqs({LineStringOf(cs) : cs \in Seqs(XY0, 2, 2)}, 0, MaxParts)}
    \cup {Geom("MultiLineString", <<>>, <<>>,
               <<LineStringOf(c1), LineStringOf(c2)>>) :
            c1 \in Seqs(XY, 2, 3), c2 \in Seqs(XY, 2, 2)}

MultiPolygons ==
    {Geom("MultiPolygon", <<>>, <<>>, gs) :
        gs \in Seqs({PolygonNoHoles(<<c1, c2, c3, c1>>) :
                         c1 \in {<<0, 0>>}, c2 \in XY0, c3 \in XY0},
                    0, MaxParts)}

Geometries ==
    Points \cup LineStrings \cup LinearRings \cup Polygons \cup MultiPoints
    \cup MultiLineStrings \cup MultiPolygons
    \cup {Geom("GeometryCollection", <<>>, <<>>, <<>>)}

(***************************************************************************)
(* Spec: the functions applied, one after the other, to one geometry.      *)
(***************************************************************************)
Pending(v) == Raise("pending", v)

NoneData == [none |-> TRUE, name |-> "", features |-> <<>>]

NoneCleaned == [none |-> TRUE, source |-> NoneData, rows |-> <<>>]

NoName == "None"

NoFile == [none |-> TRUE, name |-> "", readable |-> TRUE, features |-> <<>>]

MainIdle ==
    /\ session_state = [keys |-> {}, original_data |-> NoneData,
                        cleaned_data |-> NoneCleaned,
                        uploaded_file_name |-> NoName]
    /\ uploaded_file = NoFile
    /\ button = FALSE
    /\ gdf = <<>>
    /\ row = 0
    /\ results = <<>>
    /\ cleaned_results = <<>>
    /\ skipped = {}
    /\ error = FALSE
    /\ previous_file_name = NoName

GeomIdle ==
    /\ geometry = NoGeometry
    /\ coords_with_index = Pending(<<>>)
    /\ duplicates = Pending({})
    /\ cleaned_geometry = Pending(NoGeometry)
    /\ cleaned_duplicates = Pending({})

Init ==
    /\ geometry \in Geometries
    /\ pc = "input"
    /\ coords_with_index = Pending(<<>>)
    /\ duplicates = Pending({})
    /\ cleaned_geometry = Pending(NoGeometry)
    /\ cleaned_duplicates = Pending({})
    /\ MainIdle

GetCoordinates ==
    /\ pc = "input"
    /\ coords_with_index' = get_coordinates_with_index(geometry)
    /\ pc' = "flattened"
    /\ UNCHANGED <<geometry, duplicates, cleaned_geometry, cleaned_duplicates>>
    /\ UNCHANGED mainVars

FindDuplicates ==
    /\ pc = "flattened"
    /\ duplicates' = find_duplicate_vertices(geometry)
    /\ pc' = "detected"
    /\ UNCHANGED <<geometry, coords_with_index, cleaned_geometry,
                   cleaned_duplicates>>
    /\ UNCHANGED mainVars

RemoveDuplicates ==
    /\ pc = "detected"
    /\ cleaned_geometry' = remove_duplicates_from_geometry(geometry)
    /\ pc' = "cleaned"
    /\ UNCHANGED <<geometry, coords_with_index, duplicates, cleaned_duplicates>>
    /\ UNCHANGED mainVars

\* find_duplicate_vertices(cleaned_geometry), as main does at line 236
ReDetect ==
    /\ pc = "cleaned"
    /\ cleaned_duplicates' =
           IF cleaned_geometry.exc # "none"
           THEN Raise(cleaned_geometry.exc, {})
           ELSE find_duplicate_vertices(cleaned_geometry.val)
    /\ pc' = "redetected"
    /\ UNCHANGED <<geometry, coords_with_index, duplicates, cleaned_geometry>>
    /\ UNCHANGED mainVars

Next == GetCoordinates \/ FindDuplicates \/ RemoveDuplicates \/ ReDetect

Spec == Init /\ [][Next]_vars

(***************************************************************************)
(* Properties of the geometry functions (checked under Spec).              *)
(***************************************************************************)
Detected == pc \in {"detected", "cleaned", "redetected"}

Cleaned == pc \in {"cleaned", "redetected"}

Occurrences(cwi, c) == Cardinality({i \in 1..Len(cwi) : cwi[i][1] = c})

RepeatedCoordinates(cwi) ==
    {cwi[i][1] : i \in {j \in 1..Len(cwi) : Occurrences(cwi, cwi[j][1]) >= 2}}

ExampleLine == LineStringOf(<< <<0, 0>>, <<1, 1>>, <<0, 0>>, <<2, 2>> >>)

\* C1: find_duplicate_vertices(g) is exactly the set of (x, y) coordinates
\* that occur at least twice in get_coordinates_with_index(g): a coordinate
\* occurring once is not in it, one occurring k >= 2 times is in it (once, the
\* result being a set); LineString [(0,0),(1,1),(0,0),(2,2)] gives {(0,0)}.
C1_ExactDuplicates ==
    /\ (Detected /\ coords_with_index.exc = "none")
           => duplicates = Ok(RepeatedCoordinates(coords_with_index.val))
    /\ find_duplicate_vertices(ExampleLine) = Ok({<<0, 0>>})

C1_Witness ==
    /\ pc = "detected"
    /\ coords_with_index.exc = "none"
    /\ duplicates.exc = "none"
    /\ \E i \in 1..Len(coords_with_index.val) :
           /\ Occurrences(coords_with_index.val, coords_with_index.val[i][1]) >= 3
           /\ coords_with_index.val[i][1] \in duplicates.val
    /\ \E i \in 1..Len(coords_with_index.val) :
           /\ Occurrences(coords_with_index.val, coords_with_index.val[i][1]) = 1
           /\ coords_with_index.val[i][1] \notin duplicates.val

ZeroCoordinates(g) ==
    /\ g.geom_type \in {"Point", "LineString", "LinearRing", "Polygon"}
    /\ g.coords = <<>>

\* C2: for a geometry of a supported kind with zero coordinates (empty Point,
\* empty LineString/LinearRing, Polygon with an empty exterior),
\* get_coordinates_with_index returns the empty sequence and
\* find_duplicate_vertices the empty set, without raising an error.
C2_EmptyGeometryIsQuiet ==
    (Detected /\ ZeroCoordinates(geometry))
        => /\ coords_with_index = Ok(<<>>)
           /\ duplicates = Ok({})

Closed(cs) == cs # <<>> /\ cs[1] = cs[Len(cs)]

\* the stored coordinates of the rings (or of the line), each without its
\* final coordinate
RECURSIVE WithoutClosure(_, _)
WithoutClosure(rings, k) ==
    IF k > Len(rings) THEN <<>>
    ELSE SubSeq(rings[k], 1, Len(rings[k]) - 1) \o WithoutClosure(rings, k + 1)

StoredRings(g) == <<g.coords>> \o g.interiors

PairwiseDistinctXY(cs) ==
    \A i, j \in 1..Len(cs) : Slice2(cs[i]) = Slice2(cs[j]) => i = j

ClosedPath(g) ==
    /\ g.geom_type \in {"LineString", "LinearRing", "Polygon"}
    /\ \A i \in 1..Len(StoredRings(g)) : Closed(StoredRings(g)[i])

\* C3: for a LineString, LinearRing or Polygon ring whose first and last
\* stored coordinates are equal, get_coordinates_with_index drops the final
\* coordinate: N stored coordinates yield the N-1 flattened vertices before
\* it; and if the stored coordinates other than the closure coordinates are
\* pairwise distinct (in x, y), find_duplicate_vertices returns the empty set.
C3_RingClosureDropped ==
    (Detected /\ ClosedPath(geometry))
        => LET kept == WithoutClosure(StoredRings(geometry), 1)
           IN  /\ coords_with_index.exc = "none"
               /\ Len(coords_with_index.val) = Len(kept)
               /\ \A i \in 1..Len(kept) :
                      coords_with_index.val[i][1] = Slice2(kept[i])
               /\ PairwiseDistinctXY(kept) => duplicates = Ok({})

C3_Witness ==
    /\ pc = "detected"
    /\ geometry.geom_type = "Polygon"
    /\ Closed(geometry.coords)
    /\ Len(geometry.coords) = 4
    /\ Len(coords_with_index.val) = 3
    /\ PairwiseDistinctXY(WithoutClosure(StoredRings(geometry), 1))
    /\ duplicates = Ok({})

\* C5: for every MultiPolygon g, remove_duplicates_from_geometry(g) returns
\* the MultiPolygon of the results of remove_duplicates_from_geometry on each
\* component Polygon, in the stored order, and does not end in an error.
C5_MultiPolygonCleaned ==
    (Cleaned /\ geometry.geom_type = "MultiPolygon")
        => /\ cleaned_geometry.exc = "none"
           /\ cleaned_geometry.val.geom_type = "MultiPolygon"
           /\ Len(cleaned_geometry.val.geoms) = Len(geometry.geoms)
           /\ \A i \in 1..Len(geometry.geoms) :
                  Ok(cleaned_geometry.val.geoms[i])
                      = remove_duplicates_from_geometry(geometry.geoms[i])

\* positions of cs that start a maximal run of consecutive equal coordinates
RunStarts(cs) ==
    {i \in 1..Len(cs) : i = 1 \/ Slice2(cs[i]) # Slice2(cs[i - 1])}

\* out is cs with each maximal run replaced by its first coordinate
IsCollapseOf(out, cs) ==
    /\ Len(out) = Cardinality(RunStarts(cs))
    /\ \A i \in RunStarts(cs) :
           out[Cardinality({k \in RunStarts(cs) : k <= i})] = cs[i]

NoAdjacentEqual(out) ==
    \A i \in 1..(Len(out) - 1) : Slice2(out[i]) # Slice2(out[i + 1])

RunsCollapsed(out, cs) == IsCollapseOf(out, cs) /\ NoAdjacentEqual(out)

ExampleRuns ==
    LineStringOf(<< <<0, 0>>, <<0, 0>>, <<1, 1>>, <<1, 1>>, <<1, 1>>, <<2, 2>> >>)

ExampleCollapsed ==
    Ok(LineStringOf(<< <<0, 0>>, <<1, 1>>, <<2, 2>> >>))

LineCollapsed(out, cs) ==
    IF Cardinality(RunStarts(cs)) = 1
    THEN out = <<cs[1], cs[1]>>
    ELSE RunsCollapsed(out, cs)

Paths(g) ==
    {g.coords} \cup {g.interiors[i] : i \in 1..Len(g.interiors)}
    \cup UNION {{g.geoms[k].coords}
                    \cup {g.geoms[k].interiors[i] :
                              i \in 1..Len(g.geoms[k].interiors)} :
                k \in 1..Len(g.geoms)}

\* some line or ring of g has all its coordinates equal
Degenerate(g) == \E cs \in Paths(g) : Cardinality(RunStarts(cs)) = 1

\* C7: for every LineString, Polygon, MultiLineString and MultiPolygon g,
\* find_duplicate_vertices(remove_duplicates_from_geometry(g)) contains no
\* coordinate with two occurrences at consecutive positions of
\* get_coordinates_with_index(remove_duplicates_from_geometry(g)).  (Stated
\* for the geometries with at least one coordinate, no line or ring of a
\* single repeated coordinate, and no ring refused after the collapse.)
C7_RoundTripNoAdjacent ==
    (/\ pc = "redetected"
     /\ geometry.geom_type
            \in {"LineString", "Polygon", "MultiLineString", "MultiPolygon"}
     /\ ~ZeroCoordinates(geometry)
     /\ ~Degenerate(geometry)
     /\ cleaned_geometry.exc # "ValueError")
        => /\ cleaned_geometry.exc = "none"
           /\ cleaned_duplicates.exc = "none"
           /\ LET cwi == get_coordinates_with_index(cleaned_geometry.val).val
              IN  \A i \in 1..(Len(cwi) - 1) :
                      ~(/\ cwi[i][1] = cwi[i + 1][1]
                        /\ cwi[i][1] \in cleaned_duplicates.val)

\* a geometry with every stored coordinate cut to (x, y)
XYOfPart(g) ==
    Geom(g.geom_type,
         [i \in 1..Len(g.coords) |-> Slice2(g.coords[i])],
         [r \in 1..Len(g.interiors) |->
              [i \in 1..Len(g.interiors[r]) |-> Slice2(g.interiors[r][i])]],
         <<>>)

XYOf(g) ==
    [XYOfPart(g) EXCEPT !.geoms = [k \in 1..Len(g.geoms) |-> XYOfPart(g.geoms[k])]]

\* C8: two geometries of the same kind whose stored coordinates are equal in
\* (x, y) and differ only in z have the same get_coordinates_with_index and
\* the same find_duplicate_vertices (the ring-closure decision included).
C8_ExtraDimensionsIgnored ==
    Detected =>
        \A g2 \in Geometries :
            (g2.geom_type = geometry.geom_type /\ XYOf(g2) = XYOf(geometry))
                => /\ get_coordinates_with_index(g2) = coords_with_index
                   /\ find_duplicate_vertices(g2) = duplicates

\* C9: for every MultiPoint, MultiLineString or MultiPolygon the k-th element
\* (0-based) of get_coordinates_with_index carries position k.
C9_PositionsContinue ==
    (/\ pc # "input"
     /\ geometry.geom_type \in {"MultiPoint", "MultiLineString", "MultiPolygon"}
     /\ coords_with_index.exc = "none")
        => \A k \in 1..Len(coords_with_index.val) :
               coords_with_index.val[k][2] = k - 1

(***************************************************************************)
(* SpecMain: the reruns of main().  Each rerun is given the value of the   *)
(* file uploader (a file or None) and of the remove button.                *)
(***************************************************************************)
FileNames == {"a.geojson", "b.geojson"}

DupLine == LineStringOf(<< <<0, 0>>, <<1, 1>>, <<0, 0>>, <<2, 2>> >>)

PlainLine == LineStringOf(<< <<0, 0>>, <<1, 1>> >>)

EmptyLine == LineStringOf(<<>>)

DupMultiPolygon ==
    Geom("MultiPolygon", <<>>, <<>>,
         << PolygonNoHoles(<< <<0, 0>>, <<0, 0>>, <<1, 0>>, <<1, 1>>, <<0, 0>> >>) >>)

FeatureGeometries == {DupLine, PlainLine, EmptyLine, DupMultiPolygon}

\* the feature collections a file can hold
Batches == Seqs(FeatureGeometries, 0, MaxFeatures)

\* a file gpd.read_file parses into its features, or one it raises on
Files ==
    {[none |-> FALSE, name |-> n, readable |-> TRUE, features |-> b] :
        n \in FileNames, b \in Batches}
    \cup {[none |-> FALSE, name |-> n, readable |-> FALSE, features |-> <<>>] :
            n \in FileNames}

\* reset_session_state()
ResetKeepingCleaned(ss) ==
    [ss EXCEPT !.keys = (@ \cup {"original_data"}) \ {"uploaded_file_name"},
               !.original_data = NoneData,
               !.uploaded_file_name = NoName]

reset_session_state(ss) ==
    [ss EXCEPT !.keys = (@ \cup {"original_data", "cleaned_data"})
                            \ {"uploaded_file_name"},
               !.original_data = NoneData,
               !.cleaned_data = NoneCleaned,
               !.uploaded_file_name = NoName]

\* lines 132-137: a key not in st.session_state is set to None
InitSessionState(ss) ==
    [keys |-> {"original_data", "cleaned_data", "uploaded_file_name"},
     original_data |->
         IF "original_data" \in ss.keys THEN ss.original_data ELSE NoneData,
     cleaned_data |->
         IF "cleaned_data" \in ss.keys THEN ss.cleaned_data ELSE NoneCleaned,
     uploaded_file_name |->
         IF "uploaded_file_name" \in ss.keys THEN ss.uploaded_file_name
         ELSE NoName]

StartRun(file, clicked) ==
    /\ pc = "done"
    /\ uploaded_file' = file
    /\ button' = clicked
    /\ previous_file_name' = InitSessionState(session_state).uploaded_file_name
    /\ gdf' = <<>>
    /\ row' = 0
    /\ results' = <<>>
    /\ cleaned_results' = <<>>
    /\ skipped' = {}
    /\ error' = FALSE
    /\ UNCHANGED geomVars

\* a rerun with no uploaded file: lines 132-146 and 338-340
RunWithoutFile ==
    /\ StartRun(NoFile, FALSE)
    /\ session_state' = reset_session_state(InitSessionState(session_state))
    /\ pc' = "done"

\* a rerun with an uploaded file, up to the try of line 153
RunWithFile ==
    \E file \in Files, clicked \in BOOLEAN :
        /\ StartRun(file, clicked)
        /\ LET ss == InitSessionState(session_state)
           IN  session_state' =
                   IF ss.uploaded_file_name # file.name
                   THEN [reset_session_state(ss) EXCEPT
                            !.keys = @ \cup {"uploaded_file_name"},
                            !.uploaded_file_name = file.name]
                   ELSE ss
        /\ pc' = "load"

\* lines 155-168, gpd.read_file raising: the except of line 336
LoadFails ==
    /\ pc = "load"
    /\ session_state.original_data.none
    /\ ~uploaded_file.readable
    /\ error' = TRUE
    /\ pc' = "done"
    /\ UNCHANGED <<session_state, uploaded_file, button, gdf, row, results,
                   cleaned_results, skipped, previous_file_name>>
    /\ UNCHANGED geomVars

\* lines 155-168
LoadData ==
    /\ pc = "load"
    /\ IF session_state.original_data.none
       THEN /\ uploaded_file.readable
            /\ session_state' =
                   [session_state EXCEPT !.original_data =
                        [none |-> FALSE, name |-> uploaded_file.name,
                         features |-> uploaded_file.features]]
            /\ gdf' = uploaded_file.features
       ELSE /\ gdf' = session_state.original_data.features
            /\ UNCHANGED session_state
    /\ row' = 1
    /\ pc' = "detect"
    /\ UNCHANGED <<uploaded_file, button, results, cleaned_results, skipped,
                   error, previous_file_name>>
    /\ UNCHANGED geomVars

Result(idx, g, dups) ==
    [feature_id |-> idx, duplicate_count |-> Cardinality(dups),
     duplicate_coordinates |-> dups, geometry_type |-> g.geom_type,
     geometry |-> g]

\* one iteration of the loop of lines 170-195
DetectFeature ==
    /\ pc = "detect"
    /\ row <= Len(gdf)
    /\ LET dups == find_duplicate_vertices(gdf[row])
       IN  IF dups.exc # "none"
           THEN /\ skipped' = skipped \cup {row - 1}
                /\ UNCHANGED results
           ELSE /\ results' =
                       IF dups.val # {}
                       THEN Append(results, Result(row - 1, gdf[row], dups.val))
                       ELSE results
                /\ UNCHANGED skipped
    /\ row' = row + 1
    /\ UNCHANGED <<session_state, uploaded_file, button, gdf, cleaned_results,
                   error, previous_file_name, pc>>
    /\ UNCHANGED geomVars

\* lines 197-231 and 333-334, once the detection loop is over
DetectionDone ==
    /\ pc = "detect"
    /\ row > Len(gdf)
    /\ IF results = <<>>
       THEN /\ pc' = "done"
            /\ UNCHANGED <<session_state, row>>
       ELSE /\ session_state' =
                   IF button
                   THEN [session_state EXCEPT !.cleaned_data = NoneCleaned]
                   ELSE session_state
            /\ IF session_state'.cleaned_data.none
               THEN pc' = "clean" /\ row' = 1
               ELSE pc' = "done" /\ UNCHANGED row
    /\ UNCHANGED <<uploaded_file, button, gdf, results, cleaned_results,
                   skipped, error, previous_file_name>>
    /\ UNCHANGED geomVars

\* one iteration of the loop of lines 234-246; an exception leaves the loop
\* and the try of line 153 for the except of line 336
CleanFeature ==
    /\ pc = "clean"
    /\ row <= Len(results)
    /\ LET cleaned == remove_duplicates_from_geometry(results[row].geometry)
           dups == IF cleaned.exc # "none" THEN Raise(cleaned.exc, {})
                   ELSE find_duplicate_vertices(cleaned.val)
       IN  IF dups.exc # "none"
           THEN /\ error' = TRUE
                /\ pc' = "done"
                /\ UNCHANGED <<cleaned_results, row>>
           ELSE /\ cleaned_results' =
                       Append(cleaned_results,
                              Result(results[row].feature_id, cleaned.val,
                                     dups.val))
                /\ row' = row + 1
                /\ UNCHANGED <<error, pc>>
    /\ UNCHANGED <<session_state, uploaded_file, button, gdf, results, skipped,
                   previous_file_name>>
    /\ UNCHANGED geomVars

\* line 248, once the cleaning loop is over
CleaningDone ==
    /\ pc = "clean"
    /\ row > Len(results)
    /\ session_state' =
           [session_state EXCEPT !.cleaned_data =
                [none |-> FALSE, source |-> session_state.original_data,
                 rows |-> cleaned_results]]
    /\ pc' = "done"
    /\ UNCHANGED <<uploaded_file, button, gdf, row, results, cleaned_results,
                   skipped, error, previous_file_name>>
    /\ UNCHANGED geomVars

InitMain ==
    /\ pc = "done"
    /\ GeomIdle
    /\ MainIdle

NextMain ==
    \/ RunWithoutFile
    \/ RunWithFile
    \/ LoadFails
    \/ LoadData
    \/ DetectFeature
    \/ DetectionDone
    \/ CleanFeature
    \/ CleaningDone

SpecMain == InitMain /\ [][NextMain]_vars

(***************************************************************************)
(* Properties of main() (checked under SpecMain).                          *)
(***************************************************************************)
FeatureIds(rows) == {rows[i].feature_id : i \in 1..Len(rows)}

CleaningSucceeds(g) ==
    LET cleaned == remove_duplicates_from_geometry(g)
    IN  /\ cleaned.exc = "none"
        /\ find_duplicate_vertices(cleaned.val).exc = "none"

\* C4: a failure raised while processing one feature of a batch (in the
\* detection loop or in the cleaning loop) is confined to that feature:
\* at the end of a run that loaded the batch, every feature whose own
\* detection succeeds and finds duplicates has its result, and every such
\* feature whose own cleaning succeeds has its cleaned result.
C4_FailureConfinedToFeature ==
    (pc = "done" /\ ~uploaded_file.none /\ gdf # <<>>)
        => \A i \in 1..Len(gdf) :
               LET dups == find_duplicate_vertices(gdf[i])
               IN  (dups.exc = "none" /\ dups.val # {})
                       => /\ (i - 1) \in FeatureIds(results)
                          /\ CleaningSucceeds(gdf[i])
                                 => (i - 1) \in FeatureIds(
                                        session_state.cleaned_data.rows)

\* at the end of a run: no file, no data; cleaned data only of the data
\* loaded under the recorded file name
EndOfRunConsistent ==
    pc = "done" =>
        /\ uploaded_file.none
               => /\ session_state.original_data.none
                  /\ session_state.cleaned_data.none
        /\ ~session_state.cleaned_data.none
               => /\ ~session_state.original_data.none
                  /\ session_state.cleaned_data.source
                         = session_state.original_data
                  /\ session_state.original_data.name
                         = session_state.uploaded_file_name
                  /\ session_state.uploaded_file_name = uploaded_file.name

\* a run starting with a file of another name resets both before processing
StartResets ==
    (pc = "done" /\ pc' = "load"
        /\ uploaded_file'.name # InitSessionState(session_state).uploaded_file_name)
        => /\ session_state'.original_data.none
           /\ session_state'.cleaned_data.none

\* C10: over any sequence of reruns, a run that starts with an uploaded file
\* whose name differs from session_state.uploaded_file_name resets
\* original_data and cleaned_data to None before any processing, a run with
\* no uploaded file ends with both None, and at the end of every run a
\* non-None cleaned_data was computed from the original_data loaded under
\* the currently recorded file name.
C10_SessionCacheConsistent == []EndOfRunConsistent /\ [][StartResets]_vars

C10_Witness ==
    /\ pc = "done"
    /\ previous_file_name = "a.geojson"
    /\ uploaded_file.name = "b.geojson"
    /\ ~session_state.cleaned_data.none
    /\ session_state.cleaned_data.source.name = "b.geojson"

====
